---- MODULE Spec2Model ----
(***************************************************************************)
(* State-machine model of the ai_news_dash ingestion pipeline (main.py)    *)
(* and of the dashboard's query (dashboard.py).                            *)
(*                                                                         *)
(* Numbers that are fractions in the program (risk scores, confidences,    *)
(* the slider's minimum risk) are integers in hundredths: 100 is 1.0.      *)
(* A Python value that may be None is a set: {} is None, {v} is v.         *)
(* A Python dict is the sequence of its <<key, value>> pairs in insertion  *)
(* order.  A text is [id, len, tail]: the first len characters of the text *)
(* named id, followed by the literal tail.                                 *)
(***************************************************************************)
EXTENDS Integers, Sequences, FiniteSets, TLC

\* ------------------------------------------------------------------ bounds
\* Number of times main() is run (one process per run).
MaxRuns == 2

\* ------------------------------------------------------- program constants
\* scrape_rss(RSS_FEEDS, max_per_feed=1)
MaxPerFeed == 1
\* article_text[:150] + "..."
SummaryBudget == 150
TruncationMarker == "..."

\* RSS_FEEDS: the ordered list of configured sources.
RSS_FEEDS == <<"s1", "s2">>
Sources == {RSS_FEEDS[n] : n \in DOMAIN RSS_FEEDS}

\* ------------------------------------------------------------ input domains
Text(id, len) == [id |-> id, len |-> len, tail |-> ""]
NoText == Text("", 0)

DescA == Text("A", 200)
DescB == Text("B", 40)
DescC == Text("C", 150)

\* A tag the feed item does not carry.
NoTag == "<none>"

ItemA   == [title |-> "tA", link |-> "l1", pub_date |-> "d2", description |-> DescA]
ItemA2  == [title |-> "tA2", link |-> "l1", pub_date |-> "bad", description |-> DescC]
ItemB   == [title |-> "tB", link |-> "l2", pub_date |-> "d1", description |-> DescB]
ItemBad == [title |-> NoTag, link |-> "l2", pub_date |-> "d1", description |-> DescB]

\* What one source answers: a failure (non-200, transport error, parse error)
\* or the sequence of <item> elements of its document.
FeedOutcomes ==
    { [ok |-> FALSE, items |-> << >>],
      [ok |-> TRUE,  items |-> <<ItemA>>],
      [ok |-> TRUE,  items |-> <<ItemB, ItemA>>],
      [ok |-> TRUE,  items |-> <<ItemBad, ItemA2>>] }

\* Entities (label GPE or LOC) the NER model finds in a description, in text order.
Entities(desc) ==
    IF desc.id = "A" THEN <<"Paris", "Kyiv", "Paris">>
    ELSE IF desc.id = "B" THEN <<"Paris">>
    ELSE << >>

Names == {"Paris", "Kyiv"}

\* The coordinates the geocoder knows for a name.
Latitude(name)  == IF name = "Paris" THEN 48 ELSE 50
Longitude(name) == IF name = "Paris" THEN 2 ELSE 30

\* What the geocoder does on one call: a location, None, or an exception.
GeocoderOutcomes == {"found", "none", "error"}

\* What the analysis service does on one call.  "error": the call raises, or the
\* content is not JSON.  "badshape": the content is JSON but not a mapping with
\* the three keys.  "ok": a mapping with summary, categories, overall_risk_score.
AnalysisOutcomes ==
    { [kind |-> "error", summary |-> NoText, categories |-> << >>, overall_risk_score |-> 0],
      [kind |-> "badshape", summary |-> NoText, categories |-> << >>, overall_risk_score |-> 0],
      [kind |-> "ok", summary |-> Text("ai", 60),
       categories |-> << <<"cyber", 20>>, <<"political", 80>> >>, overall_risk_score |-> 50],
      [kind |-> "ok", summary |-> Text("ai", 60),
       categories |-> << <<"cyber", 50>>, <<"military", 50>> >>, overall_risk_score |-> 150],
      [kind |-> "ok", summary |-> Text("ai", 60),
       categories |-> << <<"military", 120>> >>, overall_risk_score |-> -20] }

\* ---------------------------------------------------------------- helpers
Min(a, b) == IF a <= b THEN a ELSE b

Range(s) == {s[n] : n \in DOMAIN s}

\* Python s[:n] on a sequence.
Take(s, n) == SubSeq(s, 1, Min(n, Len(s)))

\* Python text[:n] on a text without tail.
Slice(text, n) == [text EXCEPT !.len = Min(n, text.len)]

\* json.dumps / json.loads of a dict of numbers or of a list of strings: the
\* document keeps the order of the keys and of the elements.
JsonDumps(v) == [json |-> v]
JsonLoads(doc) == doc.json

\* Every sequence that lists each element of S once.
Orderings(S) ==
    {p \in [1..Cardinality(S) -> S] : \A x \in S : \E n \in DOMAIN p : p[n] = x}

RECURSIVE Concat(_)
Concat(ss) == IF ss = << >> THEN << >> ELSE Head(ss) \o Concat(Tail(ss))

\* ------------------------------------------------------------------ state
VARIABLES
    feedState,      \* what each source answers at present
    feedChanged,    \* the feeds changed since the last run started
    store,          \* articles.db: the committed rows of table articles, by id
    txn,            \* the rows as seen by the open connection of save_articles_to_db
    cacheFile,      \* geocode_cache.json
    GEOCODE_CACHE,  \* the process's dict
    pc,             \* the orchestrator's position
    abortCause,     \* the exception that ended the run, "" if none
    articles,       \* main's list of article dicts
    existing_links, \* main's set
    idx,            \* position of the running loop in articles
    runs,           \* number of runs started
    lastRun,        \* how the last run ended: "Done", "Aborted", "" before the first
    repeatRun,      \* this run follows a completed run with the feeds unchanged
    storeAtStart,   \* store when this run started
    geoCalls,       \* geocoder calls per name in this process
    geoTotal,       \* geocoder calls per name over all runs
    geoDone,        \* geocoder calls per name made by the runs that reached Done
    analysisLog,    \* this run's analysis calls: [item, kind] per call, in order
    eventLog,       \* this run's calls and writes: [kind, item] per event, in order
    max_per_feed,   \* scrape_rss's argument
    poolPc,         \* scrape_rss's position: "idle", "submitting", "collecting",
                    \* "returned", "raised"
    future_to_url,  \* the futures submitted so far, each with its url
    futureState,    \* per future: "queued", "running", "finished", "yielded"
    futureResult,   \* per finished future: what fetch_limited returned or raised
    dashPc,         \* the dashboard process: "off", "loaded", "answered" (in a callback)
    df,             \* dashboard.py's data frame, a sequence of rows
    selected_categories, \* the arguments of the last update_graphs callback
    min_risk,
    filtered_df     \* the frame the last callback plotted

dashVars == <<dashPc, df, selected_categories, min_risk, filtered_df>>

poolVars == <<max_per_feed, poolPc, future_to_url, futureState, futureResult>>

vars == <<feedState, feedChanged, store, txn, cacheFile, GEOCODE_CACHE, pc, abortCause,
          articles, existing_links, idx, runs, lastRun, repeatRun, storeAtStart,
          geoCalls, geoTotal, geoDone, analysisLog, eventLog, dashVars, poolVars>>

\* One entry of eventLog: a call of a service or a statement on the store.
Event(kind, item) == [kind |-> kind, item |-> item]

\* ------------------------------------------------------- utility functions
\* Mutant of MaxKey: a later key with an equal value replaces the kept one.
RECURSIVE MaxKeyLast(_, _, _)
MaxKeyLast(cat_scores, n, best) ==
    IF n > Len(cat_scores) THEN cat_scores[best][1]
    ELSE MaxKeyLast(cat_scores, n + 1,
                    IF cat_scores[n][2] >= cat_scores[best][2] THEN n ELSE best)

\* max(cat_scores, key=cat_scores.get): the scan keeps the first key whose value
\* no later value exceeds.
RECURSIVE MaxKey(_, _, _)
MaxKey(cat_scores, n, best) ==
    IF n > Len(cat_scores) THEN cat_scores[best][1]
    ELSE MaxKey(cat_scores, n + 1,
                IF cat_scores[n][2] > cat_scores[best][2] THEN n ELSE best)

get_dominant_category_safe(cat_scores) ==
    IF cat_scores = << >> THEN "Unknown" ELSE MaxKey(cat_scores, 2, 1)

NoCoords == << {}, {} >>

\* Mutant of geocode_location: a failed or empty lookup is not remembered.
geocode_location_forgetful(cache, location, outcome) ==
    IF location = "" THEN
        [ret |-> << {}, {} >>, cache |-> cache, called |-> FALSE]
    ELSE IF location \in DOMAIN cache THEN
        [ret |-> cache[location], cache |-> cache, called |-> FALSE]
    ELSE IF outcome = "found" THEN
        [ret |-> << {Latitude(location)}, {Longitude(location)} >>,
         cache |-> (location :> << {Latitude(location)}, {Longitude(location)} >>) @@ cache,
         called |-> TRUE]
    ELSE
        [ret |-> << {}, {} >>, cache |-> cache, called |-> TRUE]

\* geocode_location on the dict `cache`, the geocoder answering `outcome`:
\* the returned pair, the dict afterwards, and whether the geocoder was called.
geocode_location(cache, location, outcome) ==
    IF location = "" THEN
        [ret |-> NoCoords, cache |-> cache, called |-> FALSE]
    ELSE IF location \in DOMAIN cache THEN
        [ret |-> cache[location], cache |-> cache, called |-> FALSE]
    ELSE IF outcome = "found" THEN
        [ret |-> << {Latitude(location)}, {Longitude(location)} >>,
         cache |-> (location :> << {Latitude(location)}, {Longitude(location)} >>) @@ cache,
         called |-> TRUE]
    ELSE
        [ret |-> NoCoords, cache |-> (location :> NoCoords) @@ cache, called |-> TRUE]

\* ------------------------------------------------------------ step 1: scrape
HasTitleAndLink(item) == item.title # NoTag /\ item.link # NoTag

NewArticle(item) ==
    [title |-> item.title, link |-> item.link, pub_date |-> item.pub_date,
     description |-> item.description,
     \* the keys main adds when it enriches the dict
     enriched |-> FALSE, summary |-> NoText, category_scores |-> << >>,
     overall_risk_score |-> 0, locations |-> << >>]

RECURSIVE MapArticles(_)
MapArticles(items) ==
    IF items = << >> THEN << >>
    ELSE <<NewArticle(Head(items))>> \o MapArticles(Tail(items))

fetch_feed(answer) ==
    IF ~answer.ok THEN << >>
    ELSE MapArticles(SelectSeq(answer.items, HasTitleAndLink))

\* Mutant of fetch_limited: the whole list of the feed.
fetch_unlimited(answer) == fetch_feed(answer)

\* feed_articles[:max_per_feed]
fetch_limited(answer) == Take(fetch_feed(answer), max_per_feed)

\* scrape_rss when the futures complete in the order `order` (positions of RSS_FEEDS).
scrape_rss(feeds, answers, order) ==
    Concat([n \in DOMAIN order |-> fetch_limited(answers[feeds[order[n]]])])

\* ----------------------------------------------------------- step 2: analysis
Fallback(article_text) ==
    [kind |-> "ok",
     summary |-> [Slice(article_text, SummaryBudget) EXCEPT !.tail = TruncationMarker],
     categories |-> << >>, overall_risk_score |-> 0]

\* categorize_and_score: what it returns when the service answers `outcome`.
categorize_and_score(article_text, outcome) ==
    IF outcome.kind = "error" THEN Fallback(article_text) ELSE outcome

\* ---------------------------------------------------------- step 3: locations
\* list({ent.text ...}): the distinct names, in the set's iteration order.
extract_locations(text) == Orderings(Range(Entities(text)))

\* ----------------------------------------------------------- step 4: database
RECURSIVE DeleteLink(_, _)
DeleteLink(rows, link) ==
    IF rows = << >> THEN << >>
    ELSE IF Head(rows).link = link THEN DeleteLink(Tail(rows), link)
    ELSE <<Head(rows)>> \o DeleteLink(Tail(rows), link)

\* Mutant of InsertOrReplace: a plain INSERT into a table without UNIQUE(link).
InsertAlways(rows, row) == rows \o <<row>>

\* INSERT OR REPLACE with link UNIQUE: the row with that link is deleted and the
\* new row gets the next id.
InsertOrReplace(rows, row) == DeleteLink(rows, row.link) \o <<row>>

Row(article, coords) ==
    [title |-> article.title, link |-> article.link, pub_date |-> article.pub_date,
     description |-> article.description, summary |-> article.summary,
     category_scores |-> JsonDumps(article.category_scores),
     dominant_category |-> get_dominant_category_safe(article.category_scores),
     locations |-> JsonDumps(article.locations),
     lat |-> coords[1], lon |-> coords[2],
     overall_risk_score |-> article.overall_risk_score]

get_existing_links(rows) == {rows[n].link : n \in DOMAIN rows}

\* ------------------------------------------------------------------- Init
NoCalls == [name \in Names |-> 0]
EmptyDict == << >>

Init ==
    /\ feedState \in [Sources -> FeedOutcomes]
    /\ feedChanged = FALSE
    /\ store = << >>
    /\ txn = << >>
    /\ cacheFile \in {[state |-> "missing", data |-> EmptyDict],
                      [state |-> "corrupt", data |-> EmptyDict]}
    /\ GEOCODE_CACHE = EmptyDict
    /\ pc = "Idle"
    /\ abortCause = ""
    /\ articles = << >>
    /\ existing_links = {}
    /\ idx = 0
    /\ runs = 0
    /\ lastRun = ""
    /\ repeatRun = FALSE
    /\ storeAtStart = << >>
    /\ geoCalls = NoCalls
    /\ geoTotal = NoCalls
    /\ geoDone = NoCalls
    /\ analysisLog = << >>
    /\ eventLog = << >>
    /\ dashPc = "off"
    /\ df = << >>
    /\ selected_categories = {}
    /\ min_risk = 0
    /\ filtered_df = << >>
    /\ max_per_feed = MaxPerFeed
    /\ poolPc = "idle"
    /\ future_to_url = << >>
    /\ futureState = << >>
    /\ futureResult = << >>

\* The exception `cause` leaves main: the process ends, the open transaction is
\* rolled back, nothing after the raising statement runs.
Raise(cause) ==
    /\ pc' = "Aborted"
    /\ abortCause' = cause
    /\ txn' = << >>

\* ------------------------------------------------------------ the feeds
\* The publishers change what the sources answer, between two runs.
FeedChange ==
    /\ pc = "Idle"
    /\ runs > 0
    /\ runs < MaxRuns
    /\ ~feedChanged
    /\ feedState' \in [Sources -> FeedOutcomes] \ {feedState}
    /\ feedChanged' = TRUE
    /\ UNCHANGED <<store, txn, cacheFile, GEOCODE_CACHE, pc, abortCause, articles,
                   existing_links, idx, runs, lastRun, repeatRun, storeAtStart,
                   geoCalls, geoTotal, geoDone, analysisLog, dashVars, poolVars, eventLog>>

\* ------------------------------------------------------------------ main()
\* Mutant of LoadCache: the run starts from an empty dict whatever the file holds.
LoadCacheEmpty(file) == << >>

\* The cache load of a readable file: FileNotFoundError gives the empty dict.
LoadCache(file) == IF file.state = "missing" THEN EmptyDict ELSE file.data

\* A new process: the module-level cache load, then main up to the cache load.
StartRun ==
    /\ pc = "Idle"
    /\ runs < MaxRuns
    /\ runs' = runs + 1
    /\ repeatRun' = (lastRun = "Done" /\ ~feedChanged)
    /\ feedChanged' = FALSE
    /\ storeAtStart' = store
    /\ geoCalls' = NoCalls
    /\ articles' = << >>
    /\ existing_links' = {}
    /\ idx' = 0
    /\ analysisLog' = << >>
    /\ eventLog' = << >>
    /\ \/ /\ cacheFile.state = "corrupt"      \* json.load raises, only
          /\ Raise("JSONDecodeError")         \* FileNotFoundError is caught
          /\ GEOCODE_CACHE' = EmptyDict
       \/ /\ cacheFile.state # "corrupt"
          /\ Raise("sqlite3.Error")           \* setup_db cannot open or write the file
          /\ GEOCODE_CACHE' = EmptyDict
       \/ /\ cacheFile.state # "corrupt"
          /\ GEOCODE_CACHE' = LoadCache(cacheFile)
          /\ pc' = "Fetching"
          /\ abortCause' = ""
          /\ txn' = << >>
    /\ UNCHANGED <<feedState, store, cacheFile, lastRun, geoTotal, geoDone,
                   dashVars, poolVars>>

\* articles = scrape_rss(RSS_FEEDS, max_per_feed=1)
ScrapeRss ==
    /\ pc = "Fetching"
    /\ \E order \in Orderings(DOMAIN RSS_FEEDS) :
           articles' = scrape_rss(RSS_FEEDS, feedState, order)
    /\ pc' = "Deduplicating"
    /\ eventLog' = Append(eventLog, Event("fetch", 0))
    /\ UNCHANGED <<feedState, feedChanged, store, txn, cacheFile, GEOCODE_CACHE,
                   abortCause, existing_links, idx, runs, lastRun, repeatRun, storeAtStart,
                   geoCalls, geoTotal, geoDone,
                   dashVars, poolVars,
                   analysisLog>>

\* existing_links = get_existing_links(DB_PATH)
GetExistingLinks ==
    /\ pc = "Deduplicating"
    /\ \/ /\ existing_links' = get_existing_links(store)
          /\ idx' = 1
          /\ pc' = "Enriching"
          /\ eventLog' = Append(eventLog, Event("links", 0))
          /\ UNCHANGED <<abortCause, txn>>
       \/ /\ Raise("sqlite3.Error")
          /\ UNCHANGED <<existing_links, idx, eventLog>>
    /\ UNCHANGED <<feedState, feedChanged, store, cacheFile, GEOCODE_CACHE, articles,
                   runs, lastRun, repeatRun, storeAtStart, geoCalls, geoTotal, geoDone,
                   dashVars, poolVars,
                   analysisLog>>

\* Mutant of IsKnown: the loop skips nothing.
IsKnownNever(article, links) == FALSE

\* if article['link'] in existing_links
IsKnown(article, links) == article.link \in links

\* The loop body for an article whose link is in existing_links: continue.
SkipArticle ==
    /\ pc = "Enriching"
    /\ idx <= Len(articles)
    /\ IsKnown(articles[idx], existing_links)
    /\ idx' = idx + 1
    /\ UNCHANGED <<feedState, feedChanged, store, txn, cacheFile, GEOCODE_CACHE, pc,
                   abortCause, articles, existing_links, runs, lastRun, repeatRun,
                   storeAtStart, geoCalls, geoTotal, geoDone,
                   dashVars, poolVars,
                   analysisLog, eventLog>>

\* The loop body for any other article: analysis, the three assignments,
\* extraction, sleep.
EnrichArticle ==
    /\ pc = "Enriching"
    /\ idx <= Len(articles)
    /\ ~IsKnown(articles[idx], existing_links)
    /\ \E outcome \in AnalysisOutcomes :
         LET res == categorize_and_score(articles[idx].description, outcome) IN
         /\ analysisLog' = Append(analysisLog, [item |-> idx, kind |-> outcome.kind])
         /\ \/ /\ res.kind = "badshape"        \* res['summary'] and the like raise
               /\ Raise("KeyError: res")
               /\ eventLog' = Append(eventLog, Event("analysis", idx))
               /\ UNCHANGED <<articles, idx>>
            \/ /\ res.kind = "ok"              \* nlp(text) raises
               /\ Raise("ValueError: nlp")
               /\ eventLog' = Append(eventLog, Event("analysis", idx))
               /\ UNCHANGED <<articles, idx>>
            \/ /\ res.kind = "ok"
               /\ \E locs \in extract_locations(articles[idx].description) :
                    articles' = [articles EXCEPT ![idx] =
                                   [@ EXCEPT !.enriched = TRUE,
                                             !.summary = res.summary,
                                             !.category_scores = res.categories,
                                             !.overall_risk_score = res.overall_risk_score,
                                             !.locations = locs]]
               /\ eventLog' = eventLog \o <<Event("analysis", idx), Event("sleep", idx)>>
               /\ idx' = idx + 1
               /\ UNCHANGED <<pc, abortCause, txn>>
    /\ UNCHANGED <<feedState, feedChanged, store, cacheFile, GEOCODE_CACHE,
                   existing_links, runs, lastRun, repeatRun, storeAtStart,
                   geoCalls, geoTotal, geoDone,
                   dashVars, poolVars>>

\* save_articles_to_db: connect.
BeginSave ==
    /\ pc = "Enriching"
    /\ idx > Len(articles)
    /\ pc' = "Persisting"
    /\ txn' = store
    /\ idx' = 1
    /\ UNCHANGED <<feedState, feedChanged, store, cacheFile, GEOCODE_CACHE, abortCause,
                   articles, existing_links, runs, lastRun, repeatRun, storeAtStart,
                   geoCalls, geoTotal, geoDone,
                   dashVars, poolVars,
                   analysisLog, eventLog>>

\* save_articles_to_db, the loop body for a dict that main did not enrich:
\* article['locations'] raises KeyError.
SaveSkipped ==
    /\ pc = "Persisting"
    /\ idx <= Len(articles)
    /\ ~articles[idx].enriched
    /\ Raise("KeyError: locations")
    /\ UNCHANGED <<feedState, feedChanged, store, cacheFile, GEOCODE_CACHE, articles,
                   existing_links, idx, runs, lastRun, repeatRun, storeAtStart,
                   geoCalls, geoTotal, geoDone,
                   dashVars, poolVars,
                   analysisLog, eventLog>>

\* Mutant of AfterExecute: a connection in autocommit mode.
AfterExecuteAutocommit(committed, pending) == pending

\* The committed rows after c.execute(INSERT ...): the statement opens a
\* transaction or joins the open one, the file keeps the rows last committed.
AfterExecute(committed, pending) == committed

\* save_articles_to_db, the loop body for an enriched dict: geocode the first
\* location, then INSERT OR REPLACE.
SaveArticle ==
    /\ pc = "Persisting"
    /\ idx <= Len(articles)
    /\ articles[idx].enriched
    /\ \E outcome \in GeocoderOutcomes :
         LET article == articles[idx]
             geo == IF article.locations # << >>
                    THEN geocode_location(GEOCODE_CACHE, article.locations[1], outcome)
                    ELSE [ret |-> NoCoords, cache |-> GEOCODE_CACHE, called |-> FALSE]
             name == IF geo.called THEN article.locations[1] ELSE ""
             called == IF geo.called THEN <<Event("geocode", idx)>> ELSE << >>
         IN
         /\ GEOCODE_CACHE' = geo.cache
         /\ geoCalls' = [n \in Names |-> geoCalls[n] + IF n = name THEN 1 ELSE 0]
         /\ geoTotal' = [n \in Names |-> geoTotal[n] + IF n = name THEN 1 ELSE 0]
         /\ \/ /\ txn' = InsertOrReplace(txn, Row(article, geo.ret))
               /\ store' = AfterExecute(store, txn')
               /\ eventLog' = eventLog \o called \o <<Event("write", idx)>>
               /\ idx' = idx + 1
               /\ UNCHANGED <<pc, abortCause>>
            \/ /\ Raise("sqlite3.Error")
               /\ eventLog' = eventLog \o called
               /\ UNCHANGED <<idx, store>>
    /\ UNCHANGED <<feedState, feedChanged, cacheFile, articles, existing_links,
                   runs, lastRun, repeatRun, storeAtStart, geoDone,
                   dashVars, poolVars,
                   analysisLog>>

\* save_articles_to_db: conn.commit(), conn.close().
Commit ==
    /\ pc = "Persisting"
    /\ idx > Len(articles)
    /\ \/ /\ store' = txn
          /\ txn' = << >>
          /\ pc' = "FlushingCache"
          /\ eventLog' = Append(eventLog, Event("commit", 0))
          /\ UNCHANGED abortCause
       \/ /\ Raise("sqlite3.Error")
          /\ UNCHANGED <<store, eventLog>>
    /\ UNCHANGED <<feedState, feedChanged, cacheFile, GEOCODE_CACHE, articles,
                   existing_links, idx, runs, lastRun, repeatRun, storeAtStart,
                   geoCalls, geoTotal, geoDone,
                   dashVars, poolVars,
                   analysisLog>>

\* json.dump(GEOCODE_CACHE, f): the file holds the whole dict.
FlushCache ==
    /\ pc = "FlushingCache"
    /\ cacheFile' = [state |-> "ok", data |-> GEOCODE_CACHE]
    /\ pc' = "Done"
    /\ eventLog' = Append(eventLog, Event("flush", 0))
    /\ geoDone' = [n \in Names |-> geoDone[n] + geoCalls[n]]
    /\ UNCHANGED <<feedState, feedChanged, store, txn, GEOCODE_CACHE, abortCause,
                   articles, existing_links, idx, runs, lastRun, repeatRun, storeAtStart,
                   geoCalls, geoTotal,
                   dashVars, poolVars,
                   analysisLog>>

\* The process ends, after the last statement of main or with the exception: its
\* memory is gone, the files stay.
Exit ==
    /\ pc \in {"Done", "Aborted"}
    /\ pc' = "Idle"
    /\ lastRun' = pc
    /\ abortCause' = ""
    /\ GEOCODE_CACHE' = EmptyDict
    /\ articles' = << >>
    /\ existing_links' = {}
    /\ idx' = 0
    /\ geoCalls' = NoCalls
    /\ analysisLog' = << >>
    /\ eventLog' = << >>
    /\ repeatRun' = FALSE
    /\ UNCHANGED <<feedState, feedChanged, store, txn, cacheFile, runs, storeAtStart,
                   geoTotal, geoDone, dashVars, poolVars>>

\* ------------------------------------------------------------ dashboard.py
\* pd.to_datetime(errors='coerce'): the instant, or NaT for a text that is no date.
to_datetime(text) ==
    IF text = "d1" THEN {1} ELSE IF text = "d2" THEN {2} ELSE {}

safe_load_json(x) == JsonLoads(x)

\* One row of df after the module-level conversions.
LoadRow(row) ==
    [row EXCEPT !.category_scores = safe_load_json(@),
                !.locations = JsonLoads(@),
                !.pub_date = to_datetime(@),
                !.dominant_category =
                    get_dominant_category_safe(safe_load_json(row.category_scores))]

\* SELECT * FROM articles and the conversions: the rows in id order.
read_sql_query(rows) == [n \in DOMAIN rows |-> LoadRow(rows[n])]

\* Mutant of update_graphs: the comparison with the minimum is strict.
update_graphs_strict(frame, selected, minimum) ==
    LET Above(row) == row.overall_risk_score > minimum
        Selected(row) == row.dominant_category \in selected
        by_risk == SelectSeq(frame, Above)
    IN  IF selected # {} THEN SelectSeq(by_risk, Selected) ELSE by_risk

\* The filtered_df of update_graphs.
update_graphs(frame, selected, minimum) ==
    LET AtLeast(row) == row.overall_risk_score >= minimum
        Selected(row) == row.dominant_category \in selected
        by_risk == SelectSeq(frame, AtLeast)
    IN  IF selected # {} THEN SelectSeq(by_risk, Selected) ELSE by_risk

\* What the dropdown and the slider can send; {} is no selection (None or []).
CategoryChoices == SUBSET {"cyber", "political"}
RiskChoices == {0, 50, 55}

\* The dashboard process starts: the module-level load.
LoadData ==
    /\ dashPc = "off"
    /\ pc = "Idle"
    /\ runs > 0
    /\ df' = read_sql_query(store)
    /\ dashPc' = "loaded"
    /\ UNCHANGED <<feedState, feedChanged, store, txn, cacheFile, GEOCODE_CACHE, pc,
                   abortCause, articles, existing_links, idx, runs, lastRun, repeatRun,
                   storeAtStart, geoCalls, geoTotal, geoDone,
                   selected_categories, min_risk, filtered_df,
                   analysisLog, eventLog, poolVars>>

\* The callback update_graphs(selected_categories, min_risk), up to the filters.
UpdateGraphs ==
    /\ dashPc = "loaded"
    /\ \E selected \in CategoryChoices, minimum \in RiskChoices :
         /\ selected_categories' = selected
         /\ min_risk' = minimum
         /\ filtered_df' = update_graphs(df, selected, minimum)
    /\ dashPc' = "answered"
    /\ UNCHANGED <<feedState, feedChanged, store, txn, cacheFile, GEOCODE_CACHE, pc,
                   abortCause, articles, existing_links, idx, runs, lastRun, repeatRun,
                   storeAtStart, geoCalls, geoTotal, geoDone, df,
                   analysisLog, eventLog, poolVars>>

\* The callback builds the figures from filtered_df and returns: its arguments
\* and locals are gone, df is as it was.
ReturnFigures ==
    /\ dashPc = "answered"
    /\ dashPc' = "loaded"
    /\ selected_categories' = {}
    /\ min_risk' = 0
    /\ filtered_df' = << >>
    /\ UNCHANGED <<feedState, feedChanged, store, txn, cacheFile, GEOCODE_CACHE, pc,
                   abortCause, articles, existing_links, idx, runs, lastRun, repeatRun,
                   storeAtStart, geoCalls, geoTotal, geoDone, analysisLog, eventLog, df, poolVars>>

\* ------------------------------------------------------------ specifications
Next ==
    \/ FeedChange
    \/ StartRun
    \/ ScrapeRss
    \/ GetExistingLinks
    \/ SkipArticle
    \/ EnrichArticle
    \/ BeginSave
    \/ SaveSkipped
    \/ SaveArticle
    \/ Commit
    \/ FlushCache
    \/ Exit

\* The pipeline, run after run.
Spec == Init /\ [][Next]_vars

\* The pipeline and the dashboard.  The dashboard reads the table once, when its
\* process starts, and answers callbacks from that frame: the runs are those
\* before the dashboard starts.
NextDash ==
    \/ dashPc = "off" /\ Next
    \/ LoadData
    \/ UpdateGraphs
    \/ ReturnFigures

SpecDash == Init /\ [][NextDash]_vars

\* save_articles_to_db on one enriched article, for every dict of category
\* scores the analysis service can return.
Taxonomy == {"cyber", "military", "political", "space/satellite"}
ConfValues == {0, 50, 100}
IsDict(d) == \A m, n \in DOMAIN d : m # n => d[m][1] # d[n][1]
CatScoreDicts ==
    UNION { {d \in [1..n -> Taxonomy \X ConfValues] : IsDict(d)} : n \in 0..3 }

InitDominant ==
    /\ feedState = [s \in Sources |-> [ok |-> TRUE, items |-> <<ItemB>>]]
    /\ feedChanged = FALSE
    /\ store = << >>
    /\ txn = << >>
    /\ cacheFile = [state |-> "missing", data |-> EmptyDict]
    /\ GEOCODE_CACHE = EmptyDict
    /\ pc = "Persisting"
    /\ abortCause = ""
    /\ \E d \in CatScoreDicts :
         articles = << [NewArticle(ItemB) EXCEPT !.enriched = TRUE,
                                                 !.summary = Text("ai", 60),
                                                 !.category_scores = d,
                                                 !.overall_risk_score = 50,
                                                 !.locations = <<"Paris">>] >>
    /\ existing_links = {}
    /\ idx = 1
    /\ runs = 1
    /\ lastRun = ""
    /\ repeatRun = FALSE
    /\ storeAtStart = << >>
    /\ geoCalls = NoCalls
    /\ geoTotal = NoCalls
    /\ geoDone = NoCalls
    /\ analysisLog = << [item |-> 1, kind |-> "ok"] >>
    /\ eventLog = <<Event("fetch", 0), Event("links", 0), Event("analysis", 1),
                    Event("sleep", 1)>>
    /\ max_per_feed = MaxPerFeed
    /\ poolPc = "idle"
    /\ future_to_url = << >>
    /\ futureState = << >>
    /\ futureResult = << >>
    /\ dashPc = "off"
    /\ df = << >>
    /\ selected_categories = {}
    /\ min_risk = 0
    /\ filtered_df = << >>

NextDominant ==
    \/ SaveArticle
    \/ Commit
    \/ FlushCache

SpecDominant == InitDominant /\ [][NextDominant]_vars

\* ------------------------------------------- scrape_rss, thread by thread
\* ThreadPoolExecutor(max_workers=5)
max_workers == 5

\* The largest cap scrape_rss is called with.
MaxCap == 2

\* A list of feeds longer than the pool is wide; like RSS_FEEDS it names one
\* url twice.
FETCH_FEEDS == <<"s1", "s2", "s3", "s4", "s5", "s4">>
FetchSources == {FETCH_FEEDS[n] : n \in DOMAIN FETCH_FEEDS}

\* The document each of these sources serves when it answers.
Document(source) ==
    CASE source = "s1" -> <<ItemA>>
      [] source = "s2" -> <<ItemB, ItemA, ItemA2>>
      [] source = "s3" -> <<ItemBad, ItemA2>>
      [] source = "s4" -> <<ItemB, ItemA>>
      [] OTHER         -> << >>

\* The answers of the sources when the sources of `failing` fail.
Answers(failing) ==
    [source \in FetchSources |->
        IF source \in failing THEN [ok |-> FALSE, items |-> << >>]
        ELSE [ok |-> TRUE, items |-> Document(source)]]

\* Mutant of FutureOutcome: fetch_feed without its try/except, a failing source
\* leaves its exception in the future.
FutureOutcomeUnguarded(answer) ==
    [raised |-> ~answer.ok, value |-> fetch_limited(answer)]

\* What the worker leaves in the future: fetch_feed catches every Exception and
\* returns [], so fetch_limited returns a list.
FutureOutcome(answer) == [raised |-> FALSE, value |-> fetch_limited(answer)]

NoResult == [raised |-> FALSE, value |-> << >>]

\* The futures a worker thread is running.
InFlight == {f \in DOMAIN futureState : futureState[f] = "running"}

\* Mutant of WorkerFree: a pool without a width.
WorkerAlwaysFree(running) == TRUE

\* A queued work item starts when one of the max_workers threads is free.
WorkerFree(running) == Cardinality(running) < max_workers

pipeVars == <<feedState, feedChanged, store, txn, cacheFile, GEOCODE_CACHE, pc,
              abortCause, existing_links, idx, runs, lastRun, repeatRun, storeAtStart,
              geoCalls, geoTotal, geoDone, analysisLog, eventLog, dashVars>>

\* main is in scrape_rss(FETCH_FEEDS, max_per_feed), the executor is created.
InitFetch ==
    /\ \E failing \in SUBSET FetchSources : feedState = Answers(failing)
    /\ max_per_feed \in 0..MaxCap
    /\ poolPc = "submitting"
    /\ future_to_url = << >>
    /\ futureState = << >>
    /\ futureResult = << >>
    /\ articles = << >>
    /\ feedChanged = FALSE
    /\ store = << >>
    /\ txn = << >>
    /\ cacheFile = [state |-> "missing", data |-> EmptyDict]
    /\ GEOCODE_CACHE = EmptyDict
    /\ pc = "Fetching"
    /\ abortCause = ""
    /\ existing_links = {}
    /\ idx = 0
    /\ runs = 1
    /\ lastRun = ""
    /\ repeatRun = FALSE
    /\ storeAtStart = << >>
    /\ geoCalls = NoCalls
    /\ geoTotal = NoCalls
    /\ geoDone = NoCalls
    /\ analysisLog = << >>
    /\ eventLog = << >>
    /\ dashPc = "off"
    /\ df = << >>
    /\ selected_categories = {}
    /\ min_risk = 0
    /\ filtered_df = << >>

\* executor.submit(fetch_limited, url), for the next url of the list.
Submit ==
    /\ poolPc = "submitting"
    /\ LET f == Len(future_to_url) + 1 IN
         /\ future_to_url' = Append(future_to_url, FETCH_FEEDS[f])
         /\ futureState' = Append(futureState, "queued")
         /\ futureResult' = Append(futureResult, NoResult)
         /\ poolPc' = IF f = Len(FETCH_FEEDS) THEN "collecting" ELSE "submitting"
    /\ UNCHANGED <<max_per_feed, articles, pipeVars>>

\* A worker thread takes the oldest queued work item.
StartFetch ==
    /\ \E f \in DOMAIN futureState :
         /\ futureState[f] = "queued"
         /\ \A g \in 1..(f - 1) : futureState[g] # "queued"
         /\ WorkerFree(InFlight)
         /\ futureState' = [futureState EXCEPT ![f] = "running"]
    /\ UNCHANGED <<max_per_feed, poolPc, future_to_url, futureResult, articles,
                   pipeVars>>

\* fetch_limited(url) returns in its worker thread.
FinishFetch ==
    /\ \E f \in InFlight :
         /\ futureState' = [futureState EXCEPT ![f] = "finished"]
         /\ futureResult' = [futureResult EXCEPT
                               ![f] = FutureOutcome(feedState[future_to_url[f]])]
    /\ UNCHANGED <<max_per_feed, poolPc, future_to_url, articles, pipeVars>>

\* as_completed yields a finished future: articles.extend(future.result()).
Collect ==
    /\ poolPc = "collecting"
    /\ \E f \in DOMAIN futureState :
         /\ futureState[f] = "finished"
         /\ futureState' = [futureState EXCEPT ![f] = "yielded"]
         /\ articles' = IF futureResult[f].raised THEN articles
                        ELSE articles \o futureResult[f].value
         /\ poolPc' = IF futureResult[f].raised THEN "raised" ELSE poolPc
    /\ UNCHANGED <<max_per_feed, future_to_url, futureResult, pipeVars>>

\* The loop is over, the with block shuts the executor down and waits for its
\* threads: return articles.
Return ==
    /\ poolPc = "collecting"
    /\ \A f \in DOMAIN futureState : futureState[f] = "yielded"
    /\ poolPc' = "returned"
    /\ UNCHANGED <<max_per_feed, future_to_url, futureState, futureResult, articles,
                   pipeVars>>

NextFetch ==
    \/ Submit
    \/ StartFetch
    \/ FinishFetch
    \/ Collect
    \/ Return

SpecFetch == InitFetch /\ [][NextFetch]_vars

\* ------------------------------------------------------------------ claims
Ended == pc \in {"Done", "Aborted"}

Links(rows) == {rows[n].link : n \in DOMAIN rows}

\* The fetched items whose link was in the store when the run started, and the others.
KnownItems == {n \in DOMAIN articles : articles[n].link \in Links(storeAtStart)}
NewItems == DOMAIN articles \ KnownItems
NewLinks == {articles[n].link : n \in NewItems}

\* C1: a run that follows a completed run, the feeds unchanged in between, and
\* that no database error ends, completes and leaves the store with the same
\* number of rows and the same field values per link as it found.
C1_Idempotent ==
    (Ended /\ repeatRun /\ abortCause # "sqlite3.Error")
        => /\ pc = "Done"
           /\ Len(store) = Len(storeAtStart)
           /\ Range(store) = Range(storeAtStart)

\* C2: when a run ends in which no service failure and no storage failure
\* occurred and the fetched items with new links have pairwise distinct links,
\* the store has exactly one more row per new item, and every link it had.
C2_DedupExact ==
    (/\ Ended
     /\ abortCause \in {"", "KeyError: locations"}
     /\ Cardinality(NewItems) = Cardinality(NewLinks))
        => /\ Len(store) = Len(storeAtStart) + Cardinality(NewItems)
           /\ Links(storeAtStart) \subseteq Links(store)

\* C3: a run aborts only on a failure of durable storage (the database; the
\* unreadable cache file is counted with it here).
C3_AbortOnlyOnPersistence ==
    pc = "Aborted" => abortCause \in {"sqlite3.Error", "JSONDecodeError"}

\* C4: every item whose analysis call failed (an exception, or a parsed answer
\* that is no mapping with the three keys) carries the fallback: the first 150
\* characters of its description and the marker, no scores, risk 0; and the loop
\* has moved on.  (Runs that the extraction ends are left out.)
C4_AnalysisFallback ==
    abortCause # "ValueError: nlp" =>
        \A k \in DOMAIN analysisLog :
            LET n == analysisLog[k].item
                article == articles[n]
            IN  analysisLog[k].kind \in {"error", "badshape"} =>
                    /\ article.enriched
                    /\ article.summary.id = article.description.id
                    /\ article.summary.len = Min(150, article.description.len)
                    /\ article.summary.tail = "..."
                    /\ article.category_scores = << >>
                    /\ article.overall_risk_score = 0
                    /\ idx > n \/ pc # "Enriching"
                    /\ pc # "Aborted" \/ abortCause # "KeyError: res"

\* The rows save_articles_to_db has written so far in this run.
WrittenRows ==
    {n \in DOMAIN txn :
        \E m \in DOMAIN articles :
            m < idx /\ articles[m].enriched /\ articles[m].link = txn[n].link}

FirstLocation(row) == JsonLoads(row.locations)[1]

\* C5: in one process the geocoder is called at most once per name; a name it
\* was called for is in the dict afterwards, also when the call failed or found
\* nothing; and every row written for a name carries the pair the dict holds.
C5_GeocodeOncePerProcess ==
    /\ \A name \in Names :
          /\ geoCalls[name] <= 1
          /\ geoCalls[name] = 1 => name \in DOMAIN GEOCODE_CACHE
    /\ pc = "Persisting" =>
          \A n \in WrittenRows :
              JsonLoads(txn[n].locations) # << >> =>
                  /\ FirstLocation(txn[n]) \in DOMAIN GEOCODE_CACHE
                  /\ <<txn[n].lat, txn[n].lon>> = GEOCODE_CACHE[FirstLocation(txn[n])]

\* Two rows of one run resolved the same name, the one geocoder call found nothing.
C5_Witness ==
    /\ pc = "Persisting"
    /\ runs = 1
    /\ Len(txn) = 2
    /\ \A n \in DOMAIN txn :
          JsonLoads(txn[n].locations) # << >> /\ FirstLocation(txn[n]) = "Paris"
    /\ geoCalls["Paris"] = 1
    /\ "Paris" \in DOMAIN GEOCODE_CACHE
    /\ GEOCODE_CACHE["Paris"] = NoCoords

\* C6 as stated: over all runs, aborted ones included, the geocoder is called at
\* most once per name.
C6_GeocodeOnceOverall == \A name \in Names : geoTotal[name] <= 1

Running == pc \in {"Fetching", "Deduplicating", "Enriching", "Persisting",
                   "FlushingCache", "Done"}

\* C6 amended: the runs that reach Done call the geocoder at most once per name
\* in total, and a name such a run called it for is in the dict of every later
\* run.
C6_GeocodeOnceOverCompletedRuns ==
    \A name \in Names :
        /\ geoDone[name] <= 1
        /\ (geoDone[name] = 1 /\ Running) => name \in DOMAIN GEOCODE_CACHE

\* The second run has just written a row for a name the first run resolved,
\* without a call.
C6_Witness ==
    /\ runs = 2
    /\ pc = "Persisting"
    /\ geoDone["Paris"] = 1
    /\ geoCalls["Paris"] = 0
    /\ idx > 1
    /\ articles[idx - 1].enriched
    /\ articles[idx - 1].locations # << >>
    /\ articles[idx - 1].locations[1] = "Paris"

\* C7: every stored row has its risk score and every confidence in [0, 1].
C7_Clamped ==
    \A n \in DOMAIN store :
        /\ store[n].overall_risk_score >= 0
        /\ store[n].overall_risk_score <= 100
        /\ \A k \in DOMAIN JsonLoads(store[n].category_scores) :
              /\ JsonLoads(store[n].category_scores)[k][2] >= 0
              /\ JsonLoads(store[n].category_scores)[k][2] <= 100

\* C8: the dominant category of every written row is "Unknown" exactly when its
\* category scores are empty, and else the first key, in insertion order, whose
\* value is the maximum.
C8_DominantCategory ==
    \A rows \in {txn, store} :
        \A n \in DOMAIN rows :
            LET scores == JsonLoads(rows[n].category_scores)
                dominant == rows[n].dominant_category
            IN  /\ (dominant = "Unknown") <=> (scores = << >>)
                /\ scores # << >> =>
                      \E i \in DOMAIN scores :
                          /\ scores[i][1] = dominant
                          /\ \A j \in DOMAIN scores : scores[j][2] <= scores[i][2]
                          /\ \A j \in 1..(i - 1) : scores[j][2] < scores[i][2]

\* A stored row whose maximum is shared by its second and third key.
C8_Witness ==
    /\ pc = "Done"
    /\ \E n \in DOMAIN store :
          LET scores == JsonLoads(store[n].category_scores) IN
          /\ Len(scores) = 3
          /\ scores[1][2] < scores[2][2]
          /\ scores[2][2] = scores[3][2]
          /\ store[n].dominant_category = scores[2][1]

DateOrdered(a, b) ==
    /\ a = {} => b = {}
    /\ \A x \in a, y \in b : x <= y

\* C10: the frame a callback plots is ordered by publication time, rows without
\* a parseable time last.
C10_OrderedByDate ==
    dashPc = "answered" =>
        \A m, n \in DOMAIN filtered_df :
            m < n => DateOrdered(filtered_df[m].pub_date, filtered_df[n].pub_date)

\* The futures of the urls that answered, and of those that failed.
Succeeded == {f \in DOMAIN future_to_url : feedState[future_to_url[f]].ok}
Failed == DOMAIN future_to_url \ Succeeded

\* The valid items of a document, the first `cap` of them.
Capped(answer, cap) ==
    LET valid == SelectSeq(answer.items, HasTitleAndLink)
    IN  [n \in 1..Min(cap, Len(valid)) |-> NewArticle(valid[n])]

\* C11: whichever sources fail, scrape_rss does not raise; when it has returned,
\* every url of the list was fetched, every capped item of a source that answered
\* is in the result, every item of the result is such an item, and the futures of
\* the failing sources hold no items.
C11_FailureIsolation ==
    /\ poolPc # "raised"
    /\ poolPc = "returned" =>
         /\ future_to_url = FETCH_FEEDS
         /\ \A f \in DOMAIN futureState : futureState[f] = "yielded"
         /\ \A f \in Succeeded :
                Range(Capped(feedState[future_to_url[f]], max_per_feed))
                    \subseteq Range(articles)
         /\ \A n \in DOMAIN articles : \E f \in Succeeded :
                articles[n] \in Range(Capped(feedState[future_to_url[f]], max_per_feed))
         /\ \A f \in Failed : futureResult[f].value = << >>

\* scrape_rss has returned items although some of the sources failed.
C11_Witness ==
    /\ poolPc = "returned"
    /\ Failed # {}
    /\ Cardinality(Failed) < Len(FETCH_FEEDS)
    /\ articles # << >>

\* C12: the cache load ends no run, and a run that has loaded the cache holds
\* the empty dict when the file is missing or corrupt and the file's mapping
\* otherwise.
C12_CacheLoadNeverFatal ==
    /\ abortCause # "JSONDecodeError"
    /\ pc = "Fetching" =>
         GEOCODE_CACHE = IF cacheFile.state = "ok" THEN cacheFile.data ELSE EmptyDict

UniqueLinks(rows) == \A m, n \in DOMAIN rows : m # n => rows[m].link # rows[n].link

RowOf(rows, link) == rows[CHOOSE n \in DOMAIN rows : rows[n].link = link]

\* A step in which save_articles_to_db has executed the INSERT of articles[idx].
Saved == pc = "Persisting" /\ pc' = "Persisting" /\ idx' = idx + 1

\* C13: the table never holds two rows with one link, committed or in the open
\* transaction; an INSERT of an unseen link adds one row, an INSERT of a link the
\* table holds keeps the number of rows, and in both cases the row of that link
\* carries the saved article's fields and the rows of other links stay as they were.
C13_Upsert ==
    [][ /\ UniqueLinks(store')
        /\ UniqueLinks(txn')
        /\ Saved =>
             LET article == articles[idx]
                 row == RowOf(txn', article.link)
             IN  /\ Len(txn') = IF article.link \in Links(txn) THEN Len(txn)
                                ELSE Len(txn) + 1
                 /\ article.link \in Links(txn')
                 /\ row.title = article.title
                 /\ row.pub_date = article.pub_date
                 /\ row.description = article.description
                 /\ row.summary = article.summary
                 /\ JsonLoads(row.category_scores) = article.category_scores
                 /\ JsonLoads(row.locations) = article.locations
                 /\ row.overall_risk_score = article.overall_risk_score
                 /\ \A n \in DOMAIN txn :
                        txn[n].link # article.link => txn[n] \in Range(txn')
      ]_vars

\* Two articles with one link were saved: the table holds one row, the second's.
C13_Witness ==
    /\ pc = "Persisting"
    /\ idx = 3
    /\ articles[1].link = articles[2].link
    /\ articles[1].title # articles[2].title
    /\ Len(txn) = 1
    /\ txn[1].title = articles[2].title

\* The first fetched item with the link of item n.
FirstWithLink(n) ==
    CHOOSE m \in DOMAIN articles :
        /\ articles[m].link = articles[n].link
        /\ \A k \in DOMAIN articles : articles[k].link = articles[n].link => m <= k

\* C14: of the fetched items with one new link only the first is analysed, and
\* the row committed for that link carries the fields of that first item.
C14_FirstOccurrenceKept ==
    /\ \A k \in DOMAIN analysisLog :
           FirstWithLink(analysisLog[k].item) = analysisLog[k].item
    /\ pc \in {"FlushingCache", "Done"} =>
           \A n \in NewItems :
               LET first == articles[FirstWithLink(n)]
                   row == RowOf(store, articles[n].link)
               IN  /\ row.title = first.title
                   /\ row.pub_date = first.pub_date
                   /\ row.description = first.description
                   /\ row.summary = first.summary

\* C15: never more than max_workers fetches run at the same time, and when
\* scrape_rss has returned every url of the list was submitted and no fetch is
\* queued or running.
C15_BoundedAndJoined ==
    /\ Cardinality(InFlight) <= max_workers
    /\ poolPc = "returned" =>
         /\ Len(futureState) = Len(FETCH_FEEDS)
         /\ \A f \in DOMAIN futureState : futureState[f] \notin {"queued", "running"}

\* The pool is full and a submitted fetch waits for a thread.
C15_Witness ==
    /\ Cardinality(InFlight) = max_workers
    /\ \E f \in DOMAIN futureState : futureState[f] = "queued"

Count(s, x) == Cardinality({n \in DOMAIN s : s[n] = x})

SameBag(s, t) ==
    \A x \in Range(s) \cup Range(t) : Count(s, x) = Count(t, x)

\* The capped items of the listed sources, in the order of the list.
ExpectedItems ==
    Concat([f \in DOMAIN FETCH_FEEDS |->
               Capped(feedState[FETCH_FEEDS[f]], max_per_feed)])

\* C16: no fetch hands over more than max_per_feed items, and what scrape_rss
\* returns is, item for item with multiplicity, the first min(max_per_feed, n)
\* valid items of every listed source, whatever the order of completion.
C16_PerSourceCap ==
    /\ \A f \in DOMAIN futureResult : Len(futureResult[f].value) <= max_per_feed
    /\ poolPc = "returned" => SameBag(articles, ExpectedItems)

\* scrape_rss has returned, a source served more valid items than the cap lets
\* through, and the futures completed in another order than the list's.
C16_Witness ==
    /\ poolPc = "returned"
    /\ max_per_feed > 0
    /\ \E f \in DOMAIN future_to_url :
           Len(fetch_feed(feedState[future_to_url[f]])) > max_per_feed
    /\ articles # ExpectedItems

\* The positions of eventLog that hold an analysis call, and those of item n.
AnalysisEvents == {k \in DOMAIN eventLog : eventLog[k].kind = "analysis"}
AnalysisCalls(n) == {k \in AnalysisEvents : eventLog[k].item = n}

\* The enrichment loop has gone past item n.
LoopPassed(n) ==
    \/ pc = "Enriching" /\ n < idx
    \/ pc \in {"Persisting", "FlushingCache", "Done"}

RECURSIVE FirstOccurrences(_)
FirstOccurrences(s) ==
    IF s = << >> THEN << >>
    ELSE LET init == SubSeq(s, 1, Len(s) - 1)
             last == s[Len(s)]
         IN  IF last \in Range(init) THEN FirstOccurrences(init)
             ELSE Append(FirstOccurrences(init), last)

\* C18: the locations of an enriched item are the entities of its description,
\* each once, in the order of their first occurrence; the row written for it
\* carries that list, and the coordinates the dict holds for the list's first
\* name, or null coordinates when the list is empty.
C18_LocationsAndCoordinate ==
    /\ \A n \in DOMAIN articles :
           articles[n].enriched =>
               articles[n].locations = FirstOccurrences(Entities(articles[n].description))
    /\ pc = "Persisting" =>
           \A n \in WrittenRows :
               LET locations == JsonLoads(txn[n].locations) IN
               /\ locations = FirstOccurrences(Entities(txn[n].description))
               /\ <<txn[n].lat, txn[n].lon>> =
                      IF locations = << >> THEN NoCoords
                      ELSE GEOCODE_CACHE[locations[1]]

\* The stage an event of a run belongs to: Fetching 1, Deduplicating 2,
\* Enriching 3, ResolvingLocations 4, Persisting 5, FlushingCache 6.
StageOf(kind) ==
    CASE kind = "fetch" -> 1
      [] kind = "links" -> 2
      [] kind \in {"analysis", "sleep"} -> 3
      [] kind = "geocode" -> 4
      [] kind \in {"write", "commit"} -> 5
      [] OTHER -> 6

\* C19: the events of a run follow the order of the stages and no stage is
\* entered again once a later one has begun: every analysis call comes before
\* every geocoder call, every geocoder call before the first INSERT, and the
\* cache file is written after the commit.
C19_StageOrder ==
    \A j, k \in DOMAIN eventLog :
        j < k => StageOf(eventLog[j].kind) <= StageOf(eventLog[k].kind)

EventsOf(kind) == {k \in DOMAIN eventLog : eventLog[k].kind = kind}

\* C20: until a run commits, and for good when it aborts, the store is the store
\* the run started with; there is at most one commit in a run, it comes after
\* the run's last INSERT, and after it the store holds a row for every fetched
\* link.
C20_AllOrNothing ==
    /\ pc \in {"Fetching", "Deduplicating", "Enriching", "Persisting", "Aborted"}
           => store = storeAtStart
    /\ (pc = "Idle" /\ lastRun = "Aborted") => store = storeAtStart
    /\ Cardinality(EventsOf("commit")) <= 1
    /\ \A c \in EventsOf("commit") : \A w \in EventsOf("write") : w < c
    /\ pc \in {"FlushingCache", "Done"} =>
           /\ Cardinality(EventsOf("commit")) = 1
           /\ \A n \in DOMAIN articles : articles[n].link \in Links(store)

\* A run has aborted after save_articles_to_db had executed an INSERT.
C20_Witness ==
    /\ pc = "Aborted"
    /\ EventsOf("write") # {}
    /\ store = storeAtStart

====
